---- MODULE Spec2Model ----
(***************************************************************************)
(* A five-stage in-order MIPS pipeline simulator (cpu.py) driven one       *)
(* cycle() at a time.  cycle() is a generator: an action is the code of a  *)
(* stage from its start, or from the yield it is suspended at, to its next *)
(* yield or its end; the variable step is the position inside cycle().     *)
(* The driver iterates over cycle() and hands every event, at its yield,   *)
(* to Logger.update (logger.py); once an update has raised, the driver     *)
(* either stops (the behaviour stutters from there) or goes on iterating   *)
(* without the Logger.  Between two calls of cycle() the driver may read   *)
(* cpu.running and cpu.register(reg), which write the register file;       *)
(* reg is any register, and the calls that add a key are counted and       *)
(* capped per run.                                                         *)
(***************************************************************************)
EXTENDS Integers, Sequences, FiniteSets, TLC

\* ---------------------------------------------------------------------
\* ir.py : registers, opcodes, nodes
\* ---------------------------------------------------------------------
ZERO == 0
T0 == 8
T1 == 9
PC == 64

\* Python None for an absent register, immediate or operand value
NoneVal == -1
\* Python None for an absent label
NoLabel == ""
\* marker for "the call raised"
Raise == -2

isArithmetic(inst) == inst \in {"ADD", "AND", "OR", "SLT"}

isImmediate(inst) == inst \in {"ADDI", "ANDI", "ORI", "SLTI"}

isBranch(inst) == inst \in {"BEQ", "BNE"}

Node(label, inst, rd, rs, rt, immediate, target) ==
    [label |-> label, inst |-> inst, rd |-> rd, rs |-> rs, rt |-> rt,
     immediate |-> immediate, target |-> target]

Arith(label, inst, rd, rs, rt) == Node(label, inst, rd, rs, rt, NoneVal, NoLabel)

Immed(label, inst, rd, rs, imm) == Node(label, inst, rd, rs, NoneVal, imm, NoLabel)

Branch(label, inst, rs, rt, target) == Node(label, inst, NoneVal, rs, rt, NoneVal, target)

Nop == Node(NoLabel, "NOP", NoneVal, NoneVal, NoneVal, NoneVal, NoLabel)

\* ---------------------------------------------------------------------
\* bounds and inputs
\* ---------------------------------------------------------------------
MAX_CYCLES == 16

ProgLen == 3

LongLen == ProgLen + 2

\* instructions of the short programs
Pool ==
    { Immed(NoLabel, "ADDI", T0, ZERO, 1),
      Immed(NoLabel, "ORI", ZERO, T0, 2),
      Arith("A", "OR", T1, T1, T0),
      Branch(NoLabel, "BNE", T0, ZERO, "A"),
      Branch(NoLabel, "BEQ", T0, T1, "B"),
      Nop }

\* instructions of the long programs
LongPool ==
    { Branch(NoLabel, "BEQ", ZERO, ZERO, "L"),
      Immed(NoLabel, "ADDI", T0, T0, 1),
      Arith("L", "ADD", T1, T0, T0) }

ShortPrograms == UNION { [1..n -> Pool] : n \in 0..ProgLen }

LongPrograms == [1..LongLen -> LongPool]

Programs == ShortPrograms \cup LongPrograms

\* the programs whose driver also calls cpu.register on a register that
\* has no key yet
ReadPrograms ==
    { <<>>,
      <<Immed(NoLabel, "ADDI", T0, ZERO, 1)>>,
      <<Immed(NoLabel, "ORI", ZERO, T0, 2)>>,
      <<Arith("A", "OR", T1, T1, T0)>> }

\* how many such calls it makes in one run
MaxRegisterReads == 1

\* ---------------------------------------------------------------------
\* state
\* ---------------------------------------------------------------------
VARIABLES instructions, forwarding, currentCycle, registers,
          registerAvailability, nextExId,
          pipeline_id, pipeline_ex, pipeline_mem, pipeline_wb,
          step, events, error, instances, lastWB,
          history, entries, current, cycleMissed, fakeExId,
          logError, logFetches, logStalls, firstRun, frame, registerReads

vars == <<instructions, forwarding, currentCycle, registers,
          registerAvailability, nextExId,
          pipeline_id, pipeline_ex, pipeline_mem, pipeline_wb,
          step, events, error, instances, lastWB,
          history, entries, current, cycleMissed, fakeExId,
          logError, logFetches, logStalls, firstRun, frame, registerReads>>

\* dict.get(key, default)
Get(d, key, default) == IF key \in DOMAIN d THEN d[key] ELSE default

\* d[key] = value
Put(d, key, value) ==
    [k \in (DOMAIN d) \cup {key} |-> IF k = key THEN value ELSE d[k]]

\* d.setdefault(key, default), the dict afterwards
SetDefault(d, key, default) == IF key \in DOMAIN d THEN d ELSE Put(d, key, default)

EmptyDict == [k \in {} |-> 0]

\* ---------------------------------------------------------------------
\* cpu.py : contexts
\* ---------------------------------------------------------------------
IFContext(exId, node) == [exId |-> exId, node |-> node]

IDContext(source, rdTarget) ==
    [exId |-> source.exId, node |-> source.node, rdTarget |-> rdTarget,
     stalled |-> FALSE]

\* "rdTarget or source.rdTarget": None and MIPSRegister.ZERO (== 0) are falsy
EXContext(source, rdValue, rdTarget) ==
    [exId |-> source.exId, node |-> source.node, rdValue |-> rdValue,
     rdTarget |-> IF rdTarget = NoneVal \/ rdTarget = 0
                  THEN source.rdTarget ELSE rdTarget]

\* ---------------------------------------------------------------------
\* logger.py : events
\* ---------------------------------------------------------------------
InstructionFetchEvent(exId, cycle, node) ==
    [type |-> "InstructionFetch", exId |-> exId, cycle |-> cycle, node |-> node]

StageAdvanceEvent(exId, cycle, stage) ==
    [type |-> "StageAdvance", exId |-> exId, cycle |-> cycle, stage |-> stage]

PipelineStallEvent(exId, cycle, stage, stalls) ==
    [type |-> "PipelineStall", exId |-> exId, cycle |-> cycle, stage |-> stage,
     stalls |-> stalls]

PipelineExitEvent(exId, cycle) ==
    [type |-> "PipelineExit", exId |-> exId, cycle |-> cycle]

\* an EndOfCycle event stamped after the cycle counter moved
EndOfCycleEventLate(cycle) ==
    [type |-> "EndOfCycle", exId |-> NoneVal, cycle |-> cycle + 1]

EndOfCycleEvent(cycle) ==
    [type |-> "EndOfCycle", exId |-> NoneVal, cycle |-> cycle]

\* ---------------------------------------------------------------------
\* cpu.py : CPU
\* ---------------------------------------------------------------------
\* the value self.pc returns; the key it writes when PC is absent is
\* written where the code reads it: SetDefault(registers, PC, 0) in the
\* stages and in ReadRunning
pc == Get(registers, PC, 0)

\* running that looks at the program counter only
runningPcOnly == pc < Len(instructions)

\* the value cpu.running returns (ReadRunning is the read with its write)
running ==
    \/ pc < Len(instructions)
    \/ pipeline_id # <<>>
    \/ pipeline_ex # <<>>
    \/ pipeline_mem # <<>>
    \/ pipeline_wb # <<>>

\* the value cpu.register(reg) returns (ReadRegister is the call with its
\* write)
register(reg) == Get(registers, reg, 0)

Max(a, b) == IF a >= b THEN a ELSE b

RECURSIVE BitAnd(_, _)
BitAnd(a, b) ==
    IF a = 0 \/ b = 0 THEN 0
    ELSE 2 * BitAnd(a \div 2, b \div 2) + (IF a % 2 = 1 /\ b % 2 = 1 THEN 1 ELSE 0)

RECURSIVE BitOr(_, _)
BitOr(a, b) ==
    IF a = 0 THEN b
    ELSE IF b = 0 THEN a
    ELSE 2 * BitOr(a \div 2, b \div 2) + (IF a % 2 = 1 \/ b % 2 = 1 THEN 1 ELSE 0)

\* getExRegister with the bypass returning the stale register-file value
getExRegisterStale(reg) ==
    LET available == Get(registerAvailability, reg, 0)
        value == Get(registers, reg, 0)
    IN  IF available <= currentCycle THEN <<available, value>>
        ELSE IF forwarding /\ pipeline_mem # <<>> /\ pipeline_mem[1].rdTarget = reg
             THEN <<currentCycle, value>>
        ELSE IF forwarding /\ pipeline_wb # <<>> /\ pipeline_wb[1].rdTarget = reg
             THEN <<currentCycle, value>>
        ELSE <<available, value>>

\* getExRegister with the bypass from the MEM->WB latch left out
getExRegisterNoWb(reg) ==
    LET available == Get(registerAvailability, reg, 0)
        value == Get(registers, reg, 0)
    IN  IF available <= currentCycle THEN <<available, value>>
        ELSE IF forwarding /\ pipeline_mem # <<>> /\ pipeline_mem[1].rdTarget = reg
             THEN <<currentCycle, pipeline_mem[1].rdValue>>
        ELSE <<available, value>>

\* (first cycle the register is available, value)
getExRegister(reg) ==
    LET available == Get(registerAvailability, reg, 0)
        value == Get(registers, reg, 0)
    IN  IF available <= currentCycle THEN <<available, value>>
        ELSE IF forwarding /\ pipeline_mem # <<>> /\ pipeline_mem[1].rdTarget = reg
             THEN <<currentCycle, pipeline_mem[1].rdValue>>
        ELSE IF forwarding /\ pipeline_wb # <<>> /\ pipeline_wb[1].rdTarget = reg
             THEN <<currentCycle, pipeline_wb[1].rdValue>>
        ELSE <<available, value>>

\* (first cycle rS and rT are available, rS value, rT value)
getExInputs(node) ==
    IF node.inst = "NOP" THEN <<0, NoneVal, NoneVal>>
    ELSE LET rsr == getExRegister(node.rs)
         IN  IF isImmediate(node.inst) THEN <<rsr[1], rsr[2], node.immediate>>
             ELSE LET rtr == getExRegister(node.rt)
                  IN  <<Max(rsr[1], rtr[1]), rsr[2], rtr[2]>>

\* _acquireRegisterLock that ignores the duration
acquireRegisterLockNoDuration(reg, duration) ==
    IF reg \in {ZERO, PC} THEN registerAvailability
    ELSE Put(registerAvailability, reg,
             Max(Get(registerAvailability, reg, 0), currentCycle))

\* _acquireRegisterLock that overwrites the entry with an earlier cycle
acquireRegisterLockOverwrite(reg, duration) ==
    IF reg \in {ZERO, PC} THEN registerAvailability
    ELSE Put(registerAvailability, reg, currentCycle + duration - 3)

\* the availability table after _acquireRegisterLock(reg, duration)
acquireRegisterLock(reg, duration) ==
    IF reg \in {ZERO, PC} THEN registerAvailability
    ELSE Put(registerAvailability, reg,
             Max(Get(registerAvailability, reg, 0), currentCycle + duration))

computeEx(inst, rS, rT) ==
    IF inst \in {"ADD", "ADDI"} THEN rS + rT
    ELSE IF inst \in {"AND", "ANDI"} THEN BitAnd(rS, rT)
    ELSE IF inst \in {"OR", "ORI"} THEN BitOr(rS, rT)
    ELSE IF inst \in {"SLT", "SLTI"} THEN (IF rS < rT THEN 1 ELSE 0)
    ELSE IF inst = "BEQ" THEN (IF rS = rT THEN 1 ELSE 0)
    ELSE IF inst = "BNE" THEN (IF rS # rT THEN 1 ELSE 0)
    ELSE Raise

\* a label lookup that falls back to instruction 0 instead of raising
computeJumpTargetOrZero(target) ==
    LET hits == { i \in 1..Len(instructions) : instructions[i].label = target }
    IN  IF hits = {} THEN 0
        ELSE (CHOOSE i \in hits : \A j \in hits : i <= j) - 1

\* a label lookup that takes the last instruction with the label
computeJumpTargetLast(target) ==
    LET hits == { i \in 1..Len(instructions) : instructions[i].label = target }
    IN  IF hits = {} THEN Raise
        ELSE (CHOOSE i \in hits : \A j \in hits : j <= i) - 1

\* 0-based index of the first instruction labelled target
computeJumpTarget(target) ==
    LET hits == { i \in 1..Len(instructions) : instructions[i].label = target }
    IN  IF hits = {} THEN Raise
        ELSE (CHOOSE i \in hits : \A j \in hits : i <= j) - 1

\* ---------------------------------------------------------------------
\* logger.py : LogEntry
\* Rows are objects shared by reference between history, current and
\* cycleMissed: entries is the heap of rows, named by their exId, and the
\* three collections hold exIds.
\* ---------------------------------------------------------------------
\* an empty cell (None) of a row
NoneCell == "None"

\* the slots of a row whose markCycle raised IndexError
IndexError == <<"IndexError">>

LogEntry(exId, node, startCycle, width) ==
    [exId |-> exId, node |-> node, startCycle |-> startCycle, width |-> width,
     slots |-> <<>>, strcache |-> <<>>]

\* "[None] * n", the empty list when n <= 0
NoneList(n) == [i \in 1..n |-> NoneCell]

\* the number of cells markCycle adds when len(slots) <= offset
markCycleGrowth(slots, offset) == 1 + Len(slots) - offset

\* entry.markCycle(cycle, name): the row afterwards, its slots IndexError
\* when "self.slots[offset] = name" is out of range
markCycle(entry, cycle, name) ==
    LET offset == cycle - entry.startCycle
        slots == entry.slots
        grown == IF Len(slots) <= offset
                 THEN slots \o NoneList(markCycleGrowth(slots, offset))
                 ELSE slots
        index == IF offset >= 0 THEN offset + 1 ELSE Len(grown) + offset + 1
    IN  IF index \in 1..Len(grown)
        THEN [entry EXCEPT !.slots = [grown EXCEPT ![index] = name]]
        ELSE [entry EXCEPT !.slots = IndexError]

Raised(entry) == entry.slots = IndexError

\* "'.   ' * n"
Dots(n) == [i \in 1..n |-> "."]

\* str(entry): the label and the cells of the table row
LogEntryStr(entry) ==
    IF entry.strcache # <<>> THEN entry.strcache[1]
    ELSE [node |-> entry.node,
          cells |-> Dots(entry.startCycle)
                    \o [i \in 1..Len(entry.slots) |->
                          IF entry.slots[i] = NoneCell THEN "." ELSE entry.slots[i]]
                    \o Dots(entry.width - Len(entry.slots) - entry.startCycle)]

bake(entry) == [entry EXCEPT !.strcache = <<LogEntryStr(entry)>>]

\* ---------------------------------------------------------------------
\* logger.py : Logger
\* ---------------------------------------------------------------------
\* the Logger as one value
LoggerState ==
    [cycles |-> MAX_CYCLES, history |-> history, entries |-> entries,
     current |-> current, cycleMissed |-> cycleMissed, fakeExId |-> fakeExId,
     logError |-> logError, logFetches |-> logFetches, logStalls |-> logStalls]

\* 0-based index of the last occurrence of the row in history
lookupIndex(L, entry) ==
    LET at == { i \in 1..Len(L.history) : L.history[i] = entry.exId }
    IN  IF at = {} THEN Raise
        ELSE (CHOOSE i \in at : \A j \in at : j <= i) - 1

\* insertNop that inserts the row once whatever the count
insertNopOnce(L, entry, count) ==
    LET index == lookupIndex(L, entry)
        nop_entry == markCycle(markCycle(
                         LogEntry(L.fakeExId, Nop, entry.startCycle, L.cycles),
                         entry.startCycle, "IF"), entry.startCycle + 1, "ID")
    IN  IF index = Raise THEN [L EXCEPT !.logError = "ValueError"]
        ELSE [L EXCEPT
                !.fakeExId = @ - 1,
                !.history = SubSeq(@, 1, index) \o <<nop_entry.exId>>
                            \o SubSeq(@, index + 1, Len(@)),
                !.entries = Put(@, nop_entry.exId, nop_entry),
                !.current = @ \cup {nop_entry.exId},
                !.cycleMissed = @ \cup {nop_entry.exId}]

\* insertNop that inserts behind the row
insertNopAfter(L, entry, count) ==
    LET index == lookupIndex(L, entry)
        nop_entry == markCycle(markCycle(
                         LogEntry(L.fakeExId, Nop, entry.startCycle, L.cycles),
                         entry.startCycle, "IF"), entry.startCycle + 1, "ID")
    IN  IF index = Raise THEN [L EXCEPT !.logError = "ValueError"]
        ELSE [L EXCEPT
                !.fakeExId = @ - 1,
                !.history = SubSeq(@, 1, index + 1)
                            \o [i \in 1..count |-> nop_entry.exId]
                            \o SubSeq(@, index + 2, Len(@)),
                !.entries = Put(@, nop_entry.exId, nop_entry),
                !.current = @ \cup {nop_entry.exId},
                !.cycleMissed = @ \cup {nop_entry.exId}]

\* insertNop: the one nop_entry is inserted count times before the row
insertNop(L, entry, count) ==
    LET index == lookupIndex(L, entry)
        nop_entry == markCycle(markCycle(
                         LogEntry(L.fakeExId, Nop, entry.startCycle, L.cycles),
                         entry.startCycle, "IF"), entry.startCycle + 1, "ID")
    IN  IF index = Raise THEN [L EXCEPT !.logError = "ValueError"]
        ELSE [L EXCEPT
                !.fakeExId = @ - 1,
                !.history = SubSeq(@, 1, index)
                            \o [i \in 1..count |-> nop_entry.exId]
                            \o SubSeq(@, index + 1, Len(@)),
                !.entries = Put(@, nop_entry.exId, nop_entry),
                !.current = @ \cup {nop_entry.exId},
                !.cycleMissed = @ \cup {nop_entry.exId}]

\* InstructionFetch that also puts the new row among the rows missed
updateInstructionFetchMissed(L, event) ==
    LET entry == markCycle(LogEntry(event.exId, event.node, event.cycle, L.cycles),
                           event.cycle, "IF")
    IN  [L EXCEPT !.entries = Put(@, event.exId, entry),
                  !.history = Append(@, event.exId),
                  !.current = @ \cup {event.exId},
                  !.cycleMissed = @ \cup {event.exId},
                  !.logFetches = @ + 1]

updateInstructionFetch(L, event) ==
    LET entry == markCycle(LogEntry(event.exId, event.node, event.cycle, L.cycles),
                           event.cycle, "IF")
    IN  [L EXCEPT !.entries = Put(@, event.exId, entry),
                  !.history = Append(@, event.exId),
                  !.current = @ \cup {event.exId},
                  !.logFetches = @ + 1]

\* StageAdvance that leaves the cell of the cycle unmarked
updateStageAdvanceNoMark(L, event) ==
    IF event.exId \notin L.current THEN [L EXCEPT !.logError = "KeyError"]
    ELSE [L EXCEPT !.cycleMissed = @ \ {event.exId}]

updateStageAdvance(L, event) ==
    IF event.exId \notin L.current THEN [L EXCEPT !.logError = "KeyError"]
    ELSE LET entry == markCycle(L.entries[event.exId], event.cycle, event.stage)
         IN  IF Raised(entry)
             THEN [L EXCEPT !.cycleMissed = @ \ {event.exId},
                            !.logError = "IndexError"]
             ELSE [L EXCEPT !.cycleMissed = @ \ {event.exId},
                            !.entries = Put(@, event.exId, entry)]

updatePipelineStall(L, event) ==
    LET marked == updateStageAdvance(L, event)
    IN  IF event.exId \notin L.current THEN marked
        ELSE IF Raised(markCycle(L.entries[event.exId], event.cycle, event.stage))
        THEN marked
        ELSE IF event.stalls > 0
        THEN [insertNop(marked, marked.entries[event.exId], event.stalls)
                EXCEPT !.logStalls = @ + event.stalls]
        ELSE marked

\* a PipelineExit that bakes the row and leaves it in current and cycleMissed
updatePipelineExitNoPop(L, event) ==
    IF event.exId \notin L.current THEN [L EXCEPT !.logError = "KeyError"]
    ELSE [L EXCEPT !.entries = Put(@, event.exId, bake(@[event.exId]))]

updatePipelineExit(L, event) ==
    IF event.exId \notin L.current THEN [L EXCEPT !.logError = "KeyError"]
    ELSE [L EXCEPT !.current = @ \ {event.exId},
                   !.cycleMissed = @ \ {event.exId},
                   !.entries = Put(@, event.exId, bake(@[event.exId]))]

\* body of the EndOfCycle loop for one missed row whose markCycle succeeds
endOfCycleEntry(L, exId, cycle) ==
    LET entry == markCycle(L.entries[exId], cycle, "*")
    IN  IF entry.startCycle <= cycle - 4
        THEN [L EXCEPT !.current = @ \ {exId},
                       !.entries = Put(@, exId, bake(entry))]
        ELSE [L EXCEPT !.entries = Put(@, exId, entry)]

RECURSIVE endOfCycleLoop(_, _, _)
endOfCycleLoop(L, missed, cycle) ==
    IF missed = {} THEN L
    ELSE LET exId == CHOOSE x \in missed : TRUE
         IN  endOfCycleLoop(endOfCycleEntry(L, exId, cycle), missed \ {exId}, cycle)

\* the Loggers EndOfCycle can leave.  The loop walks a set: when markCycle
\* raises for some row, the rows visited before it are any of the others.
updateEndOfCycle(L, event) ==
    LET raising == { x \in L.cycleMissed :
                       Raised(markCycle(L.entries[x], event.cycle, "*")) }
        done == endOfCycleLoop(L, L.cycleMissed, event.cycle)
    IN  IF raising = {}
        THEN { [done EXCEPT !.cycleMissed = done.current] }
        ELSE { [endOfCycleLoop(L, visited, event.cycle)
                  EXCEPT !.logError = "IndexError"] :
               visited \in SUBSET (L.cycleMissed \ raising) }

\* the Loggers Logger.update(event) can leave
update(L, event) ==
    IF event.type = "InstructionFetch" THEN {updateInstructionFetch(L, event)}
    ELSE IF event.type = "StageAdvance" THEN {updateStageAdvance(L, event)}
    ELSE IF event.type = "PipelineStall" THEN {updatePipelineStall(L, event)}
    ELSE IF event.type = "PipelineExit" THEN {updatePipelineExit(L, event)}
    ELSE IF event.type = "EndOfCycle" THEN updateEndOfCycle(L, event)
    ELSE {[L EXCEPT !.logError = "ValueError"]}

\* the Logger becomes L
LoggerBecomes(L) ==
    /\ history' = L.history
    /\ entries' = L.entries
    /\ current' = L.current
    /\ cycleMissed' = L.cycleMissed
    /\ fakeExId' = L.fakeExId
    /\ logError' = L.logError
    /\ logFetches' = L.logFetches
    /\ logStalls' = L.logStalls

\* the events the step has yielded (one at most)
NewEvents ==
    IF events' = events THEN <<>>
    ELSE IF step = "WB" THEN events'
    ELSE SubSeq(events', Len(events) + 1, Len(events'))

\* ---------------------------------------------------------------------
\* observation of each execution instance (indexed by exId + 1)
\* ---------------------------------------------------------------------
NewInstance(idx, node, cycle) ==
    [idx |-> idx, node |-> node, ifCycle |-> cycle, exCycle |-> NoneVal,
     wbCycle |-> NoneVal, squashCycle |-> NoneVal, stalls |-> <<>>,
     idHolds |-> 0, taken |-> FALSE, doomed |-> FALSE, rsValue |-> NoneVal, rtValue |-> NoneVal]

LatchIds(l) == IF l = <<>> THEN {} ELSE {l[1].exId}

Init ==
    /\ instructions \in Programs
    /\ forwarding \in BOOLEAN
    /\ registers = EmptyDict
    /\ registerAvailability = EmptyDict
    /\ nextExId = 0
    /\ currentCycle = 0
    /\ pipeline_id = <<>>
    /\ pipeline_ex = <<>>
    /\ pipeline_mem = <<>>
    /\ pipeline_wb = <<>>
    /\ step = "WB"
    /\ events = <<>>
    /\ error = "none"
    /\ instances = <<>>
    /\ lastWB = EmptyDict
    /\ history = <<>>
    /\ entries = EmptyDict
    /\ current = {}
    /\ cycleMissed = {}
    /\ fakeExId = -1
    /\ logError = "none"
    /\ logFetches = 0
    /\ logStalls = 0
    /\ firstRun = <<>>
    /\ frame = <<>>
    /\ registerReads = 0


\* ---------------------------------------------------------------------
\* cycle() is a generator: it runs until it yields an event and goes on
\* when the driver resumes it.  step is the place of the generator: the
\* stage that runs next, or one of the yields below at which it is
\* suspended while the driver hands the event to Logger.update.  frame
\* holds the local variables of the suspended stage that the latches do
\* not hold.
\* ---------------------------------------------------------------------
Suspended ==
    {"WB:flushMEM", "WB:flushEX", "WB:flushID", "WB:advance", "WB:exit",
     "MEM:stall", "MEM:advance", "EX:hazard", "EX:hold", "EX:advance",
     "ID:stall", "ID:advance", "IF:fetch", "EndOfCycle"}

\* the driver is between two calls of cycle(), where its loop tests
\* cpu.running and prints the registers
BetweenCycles == step = "WB"

logvars == <<history, entries, current, cycleMissed, fakeExId,
             logError, logFetches, logStalls>>

\* the generator yields event: the driver hands it to Logger.update, unless
\* an earlier update raised (the driver has dropped that Logger)
Yield(event) ==
    /\ events' = Append(IF step = "WB" THEN <<>> ELSE events, event)
    /\ IF logError # "none"
       THEN UNCHANGED logvars
       ELSE \E L \in update(LoggerState, event) : LoggerBecomes(L)

\* the generator goes on to the next stage without a yield
NoYield ==
    /\ events' = IF step = "WB" THEN <<>> ELSE events
    /\ UNCHANGED logvars

\* the flush with the IF->ID latch forgotten
flushNextNoID(from) ==
    IF from <= 1 /\ pipeline_mem # <<>> THEN "MEM"
    ELSE IF from <= 2 /\ pipeline_ex # <<>> THEN "EX"
    ELSE "none"

\* the next occupied latch of the flush, in the order EX->MEM (1), ID->EX
\* (2), IF->ID (3), the latches before from being done
flushNext(from) ==
    IF from <= 1 /\ pipeline_mem # <<>> THEN "MEM"
    ELSE IF from <= 2 /\ pipeline_ex # <<>> THEN "EX"
    ELSE IF from <= 3 /\ pipeline_id # <<>> THEN "ID"
    ELSE "none"

\* the latch the flush names
flushLatch(name) ==
    IF name = "MEM" THEN pipeline_mem
    ELSE IF name = "EX" THEN pipeline_ex
    ELSE pipeline_id

\* the '*' event the flush yields before it empties the latch
flushEvent(name) == StageAdvanceEvent(flushLatch(name)[1].exId, currentCycle, "*")

\* does the WB stage flush the younger latches for this context
wbFlushes(context) ==
    /\ context.rdTarget = PC
    /\ context.rdValue # pc

\* WB that writes PC only
wbRegistersPcOnly(context) ==
    LET rd == context.rdTarget
        regs1 == IF rd = PC THEN SetDefault(registers, PC, 0) ELSE registers
    IN  IF rd = PC THEN Put(regs1, rd, context.rdValue) ELSE regs1

\* WB without the guard on $zero
wbRegistersNoZeroGuard(context) ==
    LET rd == context.rdTarget
        regs1 == IF rd = PC THEN SetDefault(registers, PC, 0) ELSE registers
    IN  Put(regs1, rd, context.rdValue)

\* the register file after the WB stage wrote this context
wbRegisters(context) ==
    LET rd == context.rdTarget
        regs1 == IF rd = PC THEN SetDefault(registers, PC, 0) ELSE registers
    IN  IF rd # ZERO THEN Put(regs1, rd, context.rdValue) ELSE regs1

\* a WB stage that keeps a taken branch in the MEM->WB latch
wbLatchKeepsBranch(context) ==
    IF context.rdTarget = PC THEN <<context>> ELSE <<>>

\* the MEM->WB latch after the WB stage completed this context
wbLatch(context) == <<>>

\* the observation of the instances after a step of the WB stage: written
\* is written back, the instances in squashed left their latch in a flush,
\* the instances in doomed were fetched behind a taken branch
wbInstances(written, squashed, doomed) ==
    [i \in 1..Len(instances) |->
        [instances[i] EXCEPT
            !.wbCycle = IF (i - 1) \in written THEN currentCycle ELSE @,
            !.squashCycle = IF (i - 1) \in squashed THEN currentCycle ELSE @,
            !.doomed = @ \/ (i - 1) \in doomed]]

\* the WB stage from the end of the flush to its first own yield: the
\* locks are dropped after a flush, the register is written, the latch is
\* emptied and StageAdvance 'WB' is yielded
wbComplete(context, flush, squashed, doomed) ==
    /\ registerAvailability' = IF flush THEN EmptyDict ELSE registerAvailability
    /\ registers' = wbRegisters(context)
    /\ pipeline_wb' = wbLatch(context)
    /\ instances' = wbInstances({context.exId}, squashed, doomed)
    /\ lastWB' = Put(lastWB, context.rdTarget, context.rdValue)
    /\ step' = "WB:advance"
    /\ Yield(StageAdvanceEvent(context.exId, currentCycle, "WB"))

\* _applyWB from its start to its first yield
ApplyWB ==
    /\ step = "WB"
    /\ error = "none"
    /\ currentCycle < MAX_CYCLES
    /\ IF pipeline_wb = <<>>
       THEN /\ step' = "MEM"
            /\ NoYield
            /\ UNCHANGED <<registers, registerAvailability, pipeline_wb,
                           instances, lastWB, frame>>
       ELSE LET context == pipeline_wb[1]
                flush == wbFlushes(context)
                younger == LatchIds(pipeline_mem) \cup LatchIds(pipeline_ex)
                               \cup LatchIds(pipeline_id)
                doomed == IF instances[context.exId + 1].taken THEN younger ELSE {}
            IN  /\ frame' = <<context>>
                /\ IF flush /\ flushNext(1) # "none"
                   THEN /\ step' = "WB:flush" \o flushNext(1)
                        /\ Yield(flushEvent(flushNext(1)))
                        /\ registers' = SetDefault(registers, PC, 0)
                        /\ instances' = wbInstances({}, {}, doomed)
                        /\ UNCHANGED <<registerAvailability, pipeline_wb, lastWB>>
                   ELSE wbComplete(context, flush, {}, doomed)
    /\ UNCHANGED <<instructions, forwarding, firstRun, registerReads, currentCycle, nextExId,
                   error, pipeline_id, pipeline_ex, pipeline_mem>>

\* _applyWB resumed after one of its yields
ResumeWB ==
    /\ step \in {"WB:flushMEM", "WB:flushEX", "WB:flushID", "WB:advance", "WB:exit"}
    /\ LET context == frame[1]
       IN  IF step = "WB:advance"
           THEN /\ step' = "WB:exit"
                /\ Yield(PipelineExitEvent(context.exId, currentCycle))
                /\ UNCHANGED <<registers, registerAvailability, pipeline_id,
                               pipeline_ex, pipeline_mem, pipeline_wb,
                               instances, lastWB, frame>>
           ELSE IF step = "WB:exit"
           THEN /\ step' = "MEM"
                /\ NoYield
                /\ frame' = <<>>
                /\ UNCHANGED <<registers, registerAvailability, pipeline_id,
                               pipeline_ex, pipeline_mem, pipeline_wb,
                               instances, lastWB>>
           ELSE LET at == IF step = "WB:flushMEM" THEN 1
                          ELSE IF step = "WB:flushEX" THEN 2 ELSE 3
                    squashed == LatchIds(flushLatch(
                                    IF at = 1 THEN "MEM"
                                    ELSE IF at = 2 THEN "EX" ELSE "ID"))
                    next == flushNext(at + 1)
                IN  /\ pipeline_mem' = IF at = 1 THEN <<>> ELSE pipeline_mem
                    /\ pipeline_ex' = IF at = 2 THEN <<>> ELSE pipeline_ex
                    /\ pipeline_id' = IF at = 3 THEN <<>> ELSE pipeline_id
                    /\ UNCHANGED frame
                    /\ IF next # "none"
                       THEN /\ step' = "WB:flush" \o next
                            /\ Yield(flushEvent(next))
                            /\ instances' = wbInstances({}, squashed, {})
                            /\ UNCHANGED <<registers, registerAvailability,
                                           pipeline_wb, lastWB>>
                       ELSE wbComplete(context, TRUE, squashed, {})
    /\ UNCHANGED <<instructions, forwarding, firstRun, registerReads, currentCycle, nextExId, error>>

\* _applyMEM from its start to its yield
ApplyMEM ==
    /\ step = "MEM"
    /\ error = "none"
    /\ IF pipeline_mem = <<>>
       THEN /\ step' = "EX"
            /\ NoYield
       ELSE IF pipeline_wb # <<>>
       THEN /\ step' = "MEM:stall"
            /\ Yield(PipelineStallEvent(pipeline_mem[1].exId, currentCycle, "EX", 0))
       ELSE /\ step' = "MEM:advance"
            /\ Yield(StageAdvanceEvent(pipeline_mem[1].exId, currentCycle, "MEM"))
    /\ UNCHANGED <<instructions, forwarding, firstRun, registerReads, currentCycle, registers,
                   registerAvailability, nextExId, pipeline_id, pipeline_ex,
                   pipeline_mem, pipeline_wb, error, instances, lastWB, frame>>

\* _applyMEM resumed after its yield
ResumeMEM ==
    /\ step \in {"MEM:stall", "MEM:advance"}
    /\ step' = "EX"
    /\ NoYield
    /\ IF step = "MEM:advance"
       THEN /\ pipeline_mem' = <<>>
            /\ pipeline_wb' = pipeline_mem
       ELSE UNCHANGED <<pipeline_mem, pipeline_wb>>
    /\ UNCHANGED <<instructions, forwarding, firstRun, registerReads, currentCycle, registers,
                   registerAvailability, nextExId, pipeline_id, pipeline_ex,
                   error, instances, lastWB, frame>>

\* the EX threshold with the non-forwarding delay forgotten
exNowSameCycle == currentCycle

\* the EX threshold four cycles in the past
exNowLate == currentCycle - 4

\* the cycle the EX stage compares availability against
exNow == IF forwarding THEN currentCycle ELSE currentCycle - 1

\* the rdTarget the EX stage passes to EXContext
exRdTarget(context, result) ==
    IF isBranch(context.node.inst)
    THEN (IF result # 0 THEN PC ELSE ZERO)
    ELSE context.rdTarget

\* the rdValue the EX stage passes to EXContext (Raise when the label is unknown)
exRdValue(context, result) ==
    IF isBranch(context.node.inst)
    THEN (IF result # 0 THEN computeJumpTarget(context.node.target) ELSE 0)
    ELSE result

\* the message of the RuntimeError _computeJumpTarget raises
UnresolvedLabel(target) == "Unable to resolve label target: " \o target

\* a stalls field that asks for the NOP rows on every held cycle
exStallsEveryCycle(context, available, now) == available - now

\* the stalls field of the hazard stall: the wait the first time, then 0
exStalls(context, available, now) ==
    IF ~context.stalled THEN available - now ELSE 0

\* a hazard stall that also forgets the decoded destination
exStalledNoTarget(context) == [context EXCEPT !.stalled = TRUE, !.rdTarget = ZERO]

\* the ID->EX context after a hazard stall
exStalled(context) == [context EXCEPT !.stalled = TRUE]

\* _applyEX from its start to its yield, or to the exception it raises
ApplyEX ==
    /\ step = "EX"
    /\ error = "none"
    /\ IF pipeline_ex = <<>>
       THEN /\ step' = "ID"
            /\ NoYield
            /\ UNCHANGED <<registerAvailability, error, instances, frame>>
       ELSE LET context == pipeline_ex[1]
                node == context.node
                inst == node.inst
                inputs == getExInputs(node)
                available == inputs[1]
                rsValue == inputs[2]
                rtValue == inputs[3]
                now == exNow
                me == context.exId + 1
                result == computeEx(inst, rsValue, rtValue)
            IN  IF available > now
                THEN /\ Yield(PipelineStallEvent(context.exId, currentCycle, "ID",
                                exStalls(context, available, now)))
                     /\ instances' = [instances EXCEPT ![me].stalls =
                            Append(@, exStalls(context, available, now))]
                     /\ step' = "EX:hazard"
                     /\ UNCHANGED <<registerAvailability, error, frame>>
                ELSE IF pipeline_mem # <<>>
                THEN /\ Yield(PipelineStallEvent(context.exId, currentCycle, "ID", 0))
                     /\ instances' = [instances EXCEPT ![me].stalls = Append(@, 0)]
                     /\ step' = "EX:hold"
                     /\ UNCHANGED <<registerAvailability, error, frame>>
                ELSE IF result = Raise
                THEN /\ error' = "ValueError"
                     /\ NoYield
                     /\ UNCHANGED <<step, registerAvailability, instances, frame>>
                ELSE IF exRdValue(context, result) = Raise
                THEN /\ error' = UnresolvedLabel(node.target)
                     /\ NoYield
                     /\ UNCHANGED <<step, registerAvailability, instances, frame>>
                ELSE /\ registerAvailability' =
                            IF isArithmetic(inst) \/ isImmediate(inst)
                            THEN acquireRegisterLock(node.rd, 2)
                            ELSE registerAvailability
                     /\ frame' = <<[rdValue |-> exRdValue(context, result),
                                    rdTarget |-> exRdTarget(context, result)]>>
                     /\ Yield(StageAdvanceEvent(context.exId, currentCycle, "EX"))
                     /\ instances' = [instances EXCEPT
                            ![me].exCycle = currentCycle,
                            ![me].rsValue = rsValue,
                            ![me].rtValue = rtValue,
                            ![me].taken = isBranch(inst) /\ result # 0]
                     /\ step' = "EX:advance"
                     /\ UNCHANGED error
    /\ UNCHANGED <<instructions, forwarding, firstRun, registerReads, currentCycle, registers, nextExId,
                   pipeline_id, pipeline_ex, pipeline_mem, pipeline_wb, lastWB>>

\* _applyEX resumed after its yield
ResumeEX ==
    /\ step \in {"EX:hazard", "EX:hold", "EX:advance"}
    /\ step' = "ID"
    /\ NoYield
    /\ IF step = "EX:hazard"
       THEN /\ pipeline_ex' = <<exStalled(pipeline_ex[1])>>
            /\ UNCHANGED <<pipeline_mem, frame>>
       ELSE IF step = "EX:hold"
       THEN UNCHANGED <<pipeline_ex, pipeline_mem, frame>>
       ELSE /\ pipeline_ex' = <<>>
            /\ pipeline_mem' = <<EXContext(pipeline_ex[1], frame[1].rdValue,
                                           frame[1].rdTarget)>>
            /\ frame' = <<>>
    /\ UNCHANGED <<instructions, forwarding, firstRun, registerReads, currentCycle, registers,
                   registerAvailability, nextExId, pipeline_id, pipeline_wb,
                   error, instances, lastWB>>

\* the rdTarget decoded by the ID stage
idRdTarget(node) ==
    IF isArithmetic(node.inst) \/ isImmediate(node.inst) THEN node.rd
    ELSE IF isBranch(node.inst) THEN PC
    ELSE ZERO

\* _applyID from its start to its yield
ApplyID ==
    /\ step = "ID"
    /\ error = "none"
    /\ IF pipeline_id = <<>>
       THEN /\ step' = "IF"
            /\ NoYield
            /\ UNCHANGED instances
       ELSE IF pipeline_ex # <<>>
       THEN /\ step' = "ID:stall"
            /\ Yield(PipelineStallEvent(pipeline_id[1].exId, currentCycle, "IF", 0))
            /\ instances' = [instances EXCEPT
                                ![pipeline_id[1].exId + 1].idHolds = @ + 1]
       ELSE /\ step' = "ID:advance"
            /\ Yield(StageAdvanceEvent(pipeline_id[1].exId, currentCycle, "ID"))
            /\ UNCHANGED instances
    /\ UNCHANGED <<instructions, forwarding, firstRun, registerReads, currentCycle, registers,
                   registerAvailability, nextExId, pipeline_id, pipeline_ex,
                   pipeline_mem, pipeline_wb, error, lastWB, frame>>

\* _applyID resumed after its yield
ResumeID ==
    /\ step \in {"ID:stall", "ID:advance"}
    /\ step' = "IF"
    /\ NoYield
    /\ IF step = "ID:advance"
       THEN /\ pipeline_id' = <<>>
            /\ pipeline_ex' = <<IDContext(pipeline_id[1],
                                          idRdTarget(pipeline_id[1].node))>>
       ELSE UNCHANGED <<pipeline_id, pipeline_ex>>
    /\ UNCHANGED <<instructions, forwarding, firstRun, registerReads, currentCycle, registers,
                   registerAvailability, nextExId, pipeline_mem, pipeline_wb,
                   error, instances, lastWB, frame>>

\* an exId counted downwards
ifExIdDown == 0 - nextExId

\* an exId taken from the index of the fetched instruction
ifExIdOfPc == pc

\* the exId the IF stage gives the instance it fetches
ifExId == nextExId

\* _applyIF from its start to its yield
ApplyIF ==
    /\ step = "IF"
    /\ error = "none"
    /\ IF pipeline_id # <<>>
       THEN /\ step' = "EOC"
            /\ NoYield
            /\ UNCHANGED <<registers, nextExId, pipeline_id, instances>>
       ELSE IF pc >= Len(instructions)
       THEN /\ step' = "EOC"
            /\ NoYield
            /\ registers' = SetDefault(registers, PC, 0)
            /\ UNCHANGED <<nextExId, pipeline_id, instances>>
       ELSE LET node == instructions[pc + 1]
                exId == ifExId
            IN  /\ step' = "IF:fetch"
                /\ nextExId' = nextExId + 1
                /\ registers' = Put(registers, PC, pc + 1)
                /\ pipeline_id' = <<IFContext(exId, node)>>
                /\ Yield(InstructionFetchEvent(exId, currentCycle, node))
                /\ instances' = Append(instances,
                       NewInstance(pc, node, currentCycle))
    /\ UNCHANGED <<instructions, forwarding, firstRun, registerReads, currentCycle, registerAvailability,
                   pipeline_ex, pipeline_mem, pipeline_wb, error, lastWB, frame>>

\* _applyIF resumed after its yield
ResumeIF ==
    /\ step = "IF:fetch"
    /\ step' = "EOC"
    /\ NoYield
    /\ UNCHANGED <<instructions, forwarding, firstRun, registerReads, currentCycle, registers,
                   registerAvailability, nextExId, pipeline_id, pipeline_ex,
                   pipeline_mem, pipeline_wb, error, instances, lastWB, frame>>

\* cycle() yields EndOfCycleEvent
EndCycle ==
    /\ step = "EOC"
    /\ error = "none"
    /\ step' = "EndOfCycle"
    /\ Yield(EndOfCycleEvent(currentCycle))
    /\ UNCHANGED <<instructions, forwarding, firstRun, registerReads, currentCycle, registers,
                   registerAvailability, nextExId, pipeline_id, pipeline_ex,
                   pipeline_mem, pipeline_wb, error, instances, lastWB, frame>>

\* cycle() resumed after EndOfCycleEvent: the counter moves and the
\* generator is exhausted
ResumeCycle ==
    /\ step = "EndOfCycle"
    /\ step' = "WB"
    /\ currentCycle' = currentCycle + 1
    /\ NoYield
    /\ UNCHANGED <<instructions, forwarding, firstRun, registerReads, registers,
                   registerAvailability, nextExId, pipeline_id, pipeline_ex,
                   pipeline_mem, pipeline_wb, error, instances, lastWB, frame>>

\* the driver reads cpu.running: the pc property behind it is
\* registers.setdefault(PC, 0)
ReadRunning ==
    /\ BetweenCycles
    /\ registers' = SetDefault(registers, PC, 0)
    /\ UNCHANGED <<instructions, forwarding, firstRun, registerReads, currentCycle,
                   registerAvailability, nextExId, pipeline_id, pipeline_ex,
                   pipeline_mem, pipeline_wb, step, events, error, instances,
                   lastWB, frame>>
    /\ UNCHANGED logvars

\* the registers CPU.register accepts: every member of MIPSRegister
ReadableRegisters == (0..31) \cup {PC}

\* how many calls of cpu.register that add a key the driver of this run
\* makes at most
ReadBudget == IF instructions \in ReadPrograms THEN MaxRegisterReads ELSE 0

\* the driver calls cpu.register(reg): registers.setdefault(reg, 0).
\* registerReads counts the calls that added a key
ReadRegister ==
    /\ BetweenCycles
    /\ \E reg \in ReadableRegisters :
          /\ reg \in DOMAIN registers \/ registerReads < ReadBudget
          /\ registers' = SetDefault(registers, reg, 0)
          /\ registerReads' =
                IF reg \in DOMAIN registers THEN registerReads
                ELSE registerReads + 1
    /\ UNCHANGED <<instructions, forwarding, firstRun, currentCycle,
                   registerAvailability, nextExId, pipeline_id, pipeline_ex,
                   pipeline_mem, pipeline_wb, step, events, error, instances,
                   lastWB, frame>>
    /\ UNCHANGED logvars

Next ==
    \/ ApplyWB
    \/ ResumeWB
    \/ ApplyMEM
    \/ ResumeMEM
    \/ ApplyEX
    \/ ResumeEX
    \/ ApplyID
    \/ ResumeID
    \/ ApplyIF
    \/ ResumeIF
    \/ EndCycle
    \/ ResumeCycle
    \/ ReadRunning
    \/ ReadRegister

Spec == Init /\ [][Next]_vars

\* ---------------------------------------------------------------------
\* one program run in both modes: a CPU with forwarding runs until it has
\* halted, then a second CPU is constructed on the same nodes without
\* forwarding.  firstRun keeps the register file the first CPU ended with.
\* ---------------------------------------------------------------------
InitTwoModes ==
    /\ Init
    /\ instructions \in LongPrograms
    /\ forwarding = TRUE

\* CPU(src, False) and Logger() constructed after the forwarding run halted
Rerun ==
    /\ step = "WB"
    /\ error = "none"
    /\ ~running
    /\ forwarding
    /\ firstRun = <<>>
    /\ firstRun' = <<registers>>
    /\ forwarding' = FALSE
    /\ registers' = EmptyDict
    /\ registerAvailability' = EmptyDict
    /\ nextExId' = 0
    /\ currentCycle' = 0
    /\ pipeline_id' = <<>>
    /\ pipeline_ex' = <<>>
    /\ pipeline_mem' = <<>>
    /\ pipeline_wb' = <<>>
    /\ events' = <<>>
    /\ instances' = <<>>
    /\ lastWB' = EmptyDict
    /\ history' = <<>>
    /\ entries' = EmptyDict
    /\ current' = {}
    /\ cycleMissed' = {}
    /\ fakeExId' = -1
    /\ logError' = "none"
    /\ logFetches' = 0
    /\ logStalls' = 0
    /\ registerReads' = 0
    /\ UNCHANGED <<instructions, step, error, frame>>

NextTwoModes ==
    \/ Next
    \/ Rerun

SpecTwoModes == InitTwoModes /\ [][NextTwoModes]_vars


\* ---------------------------------------------------------------------
\* helpers of the properties
\* ---------------------------------------------------------------------
\* every register name of MIPSRegister
RegisterNames == (0..31) \cup {PC}

\* the registers the EX stage reads for a node
ReadsRegs(node) ==
    IF node.inst = "NOP" THEN {}
    ELSE IF isImmediate(node.inst) THEN {node.rs}
    ELSE {node.rs, node.rt}

\* the contexts held in the latches that have passed EX
PastEX == { pipeline_mem[i] : i \in 1..Len(pipeline_mem) }
              \cup { pipeline_wb[i] : i \in 1..Len(pipeline_wb) }

StarIds(evs) ==
    { evs[i].exId : i \in { j \in 1..Len(evs) :
                              evs[j].type = "StageAdvance" /\ evs[j].stage = "*" } }

\* ---------------------------------------------------------------------
\* C1: a branch whose condition is false is inert after EX: it sits in the
\* EX->MEM and MEM->WB latches with rdTarget ZERO and rdValue 0, and its WB
\* changes PC not at all and squashes no younger instance.
\* ---------------------------------------------------------------------
C1_NotTakenBranchInert ==
    /\ \A c \in PastEX :
          (isBranch(c.node.inst) /\ ~instances[c.exId + 1].taken)
              => (c.rdTarget = ZERO /\ c.rdValue = 0)
    /\ \A i \in 1..Len(instances) :
          ( /\ isBranch(instances[i].node.inst)
            /\ instances[i].exCycle # NoneVal
            /\ ~instances[i].taken )
              => \A j \in 1..Len(instances) :
                    instances[j].squashCycle = NoneVal
                    \/ instances[j].squashCycle # instances[i].wbCycle

\* ---------------------------------------------------------------------
\* C2: no instance fetched after a taken branch and before that branch's
\* WB ever writes the register file or emits PipelineExit.
\* ---------------------------------------------------------------------
C2_TakenBranchSquashesYounger ==
    \A i \in 1..Len(instances) :
        instances[i].doomed => instances[i].wbCycle = NoneVal

\* ---------------------------------------------------------------------
\* C3: when the WB stage has processed a context with rdTarget PC and
\* rdValue different from PC, the three younger latches are empty, the
\* availability table has no entries, PC is that rdValue, and the events
\* of the stage are one StageAdvance '*' per instance that was in a
\* younger latch, followed by the branch's own WB and then its
\* PipelineExit.
\* ---------------------------------------------------------------------
\* the instances that were in a latch when the cycle began, but for me
InFlightAtStart(me) ==
    { i - 1 : i \in { j \in 1..Len(instances) :
                        /\ j - 1 # me
                        /\ instances[j].wbCycle = NoneVal
                        /\ instances[j].squashCycle \in {NoneVal, currentCycle} } }

C3_FlushEmptiesYounger ==
    [][ /\ ( /\ step # "WB:advance"
             /\ step' = "WB:advance"
             /\ pipeline_wb[1].rdTarget = PC
             /\ pipeline_wb[1].rdValue # pc )
           => LET me == pipeline_wb[1].exId
                  occ == InFlightAtStart(me)
                  n == Cardinality(occ)
              IN  /\ pipeline_id' = <<>>
                  /\ pipeline_ex' = <<>>
                  /\ pipeline_mem' = <<>>
                  /\ pipeline_wb' = <<>>
                  /\ DOMAIN registerAvailability' = {}
                  /\ PC \in DOMAIN registers'
                  /\ registers'[PC] = pipeline_wb[1].rdValue
                  /\ Len(events') = n + 1
                  /\ \A k \in 1..n : /\ events'[k].type = "StageAdvance"
                                     /\ events'[k].stage = "*"
                                     /\ events'[k].cycle = currentCycle
                  /\ { events'[k].exId : k \in 1..n } = occ
                  /\ events'[n + 1] = StageAdvanceEvent(me, currentCycle, "WB")
        /\ (step = "WB:advance" /\ step' # step)
           => /\ step' = "WB:exit"
              /\ events' = Append(events, PipelineExitEvent(frame[1].exId, currentCycle))
              /\ UNCHANGED <<pipeline_id, pipeline_ex, pipeline_mem, pipeline_wb,
                             registers, registerAvailability>>
      ]_vars

C3_Witness ==
    /\ step = "WB:exit"
    /\ Len(events) = 5
    /\ Cardinality(StarIds(events)) = 3
    /\ events[4].type = "StageAdvance" /\ events[4].stage = "WB"
    /\ events[5].type = "PipelineExit"
    /\ pipeline_id = <<>> /\ pipeline_ex = <<>> /\ pipeline_mem = <<>>
    /\ DOMAIN registerAvailability = {}


\* ---------------------------------------------------------------------
\* C4: for a branch-free program, in both modes, every EX operand is the
\* value the register has when the older instructions are executed one at
\* a time in program order, and when running becomes false every register
\* holds the value of that sequential execution.
\* ---------------------------------------------------------------------
BranchFree(prog) == \A i \in 1..Len(prog) : ~isBranch(prog[i].inst)

\* the register file after executing the first n instructions one at a time
RECURSIVE SeqRegs(_, _)
SeqRegs(prog, n) ==
    IF n = 0 THEN EmptyDict
    ELSE LET before == SeqRegs(prog, n - 1)
             node == prog[n]
             rS == Get(before, node.rs, 0)
             rT == IF isImmediate(node.inst) THEN node.immediate
                   ELSE Get(before, node.rt, 0)
         IN  IF node.inst = "NOP" \/ node.rd = ZERO THEN before
             ELSE Put(before, node.rd, computeEx(node.inst, rS, rT))

C4_BranchFreeSequential ==
    BranchFree(instructions) =>
        /\ \A i \in 1..Len(instances) :
              instances[i].exCycle # NoneVal =>
                  LET node == instances[i].node
                      before == SeqRegs(instructions, instances[i].idx)
                  IN  /\ instances[i].rsValue = Get(before, node.rs, 0)
                      /\ instances[i].rtValue =
                            IF isImmediate(node.inst) THEN node.immediate
                            ELSE Get(before, node.rt, 0)
        /\ ~running =>
              \A r \in 0..31 :
                  register(r) = Get(SeqRegs(instructions, Len(instructions)), r, 0)

C4_Witness ==
    /\ BranchFree(instructions)
    /\ ~running
    /\ Len(instructions) >= 3
    /\ register(T0) = 2
    /\ register(T1) = 4

\* ---------------------------------------------------------------------
\* C5: without forwarding, an instance that reads a register (not ZERO)
\* written by the arithmetic/immediate instruction fetched immediately
\* before it, the producer not having stalled, is held at the ID->EX latch
\* for exactly two cycles: the first PipelineStall has stalls = 2, the
\* second has stalls = 0, and it completes EX in the cycle after the
\* producer's WB.
\* ---------------------------------------------------------------------
\* instances[i] reached EX right behind its unstalled producer instances[i - 1]
C5_Dependent(i) ==
    /\ i >= 2
    /\ LET p == instances[i - 1]
           c == instances[i]
       IN  /\ isArithmetic(p.node.inst) \/ isImmediate(p.node.inst)
           /\ p.node.rd # ZERO
           /\ p.node.rd \in ReadsRegs(c.node)
           /\ c.idx = p.idx + 1
           /\ p.stalls = <<>>
           /\ p.exCycle # NoneVal
           /\ c.stalls # <<>> \/ c.exCycle # NoneVal

C5_TwoCycleStall ==
    ~forwarding =>
        \A i \in 1..Len(instances) :
            C5_Dependent(i) =>
                LET p == instances[i - 1]
                    c == instances[i]
                IN  /\ c.stalls \in {<<2>>, <<2, 0>>}
                    /\ c.squashCycle = NoneVal
                    /\ c.exCycle # NoneVal =>
                          /\ c.stalls = <<2, 0>>
                          /\ p.wbCycle # NoneVal
                          /\ c.exCycle = p.wbCycle + 1
                    /\ (c.exCycle = NoneVal /\ error = "none") =>
                          currentCycle <= p.exCycle + 3

C5_Witness ==
    /\ ~forwarding
    /\ \E i \in 1..Len(instances) :
          /\ C5_Dependent(i)
          /\ instances[i].exCycle # NoneVal
          /\ instances[i].stalls = <<2, 0>>

\* ---------------------------------------------------------------------
\* C6: with forwarding enabled no PipelineStall event is ever emitted and
\* every instance advances one stage per cycle from IF to WB, unless it is
\* squashed.
\* ---------------------------------------------------------------------
C6_ForwardingNeverStalls ==
    forwarding =>
        /\ \A k \in 1..Len(events) : events[k].type # "PipelineStall"
        /\ \A i \in 1..Len(instances) :
              LET c == instances[i]
              IN  /\ c.stalls = <<>>
                  /\ c.exCycle # NoneVal => c.exCycle = c.ifCycle + 2
                  /\ c.wbCycle # NoneVal => c.wbCycle = c.ifCycle + 4
                  /\ (c.wbCycle = NoneVal /\ c.squashCycle = NoneVal
                          /\ error = "none")
                        => currentCycle <= c.ifCycle + 4

C6_Witness ==
    /\ forwarding
    /\ \E i \in 2..Len(instances) :
          /\ instances[i - 1].node.rd \in ReadsRegs(instances[i].node) \ {ZERO}
          /\ instances[i].exCycle = instances[i - 1].exCycle + 1
          /\ instances[i].rsValue > 0
          /\ instances[i].wbCycle # NoneVal

\* ---------------------------------------------------------------------
\* C7: the execution ids held in the latches are strictly ordered by age:
\* MEM->WB < EX->MEM < ID->EX < IF->ID.
\* ---------------------------------------------------------------------
C7_LatchesInOrder ==
    /\ \A a \in LatchIds(pipeline_wb) :
          \A b \in LatchIds(pipeline_mem) \cup LatchIds(pipeline_ex)
                      \cup LatchIds(pipeline_id) : a < b
    /\ \A a \in LatchIds(pipeline_mem) :
          \A b \in LatchIds(pipeline_ex) \cup LatchIds(pipeline_id) : a < b
    /\ \A a \in LatchIds(pipeline_ex) :
          \A b \in LatchIds(pipeline_id) : a < b

C7_Witness ==
    /\ step = "WB"
    /\ pipeline_id # <<>>
    /\ pipeline_ex # <<>>
    /\ pipeline_mem # <<>>
    /\ pipeline_wb # <<>>


\* ---------------------------------------------------------------------
\* C8 (as claimed): after every cycle, for every register r that is the
\* write target (rdTarget, or the rd the ID stage will decode) of an
\* instance held in any latch, availability[r] >= currentCycle.
\* ---------------------------------------------------------------------
\* the write targets of the instances held in the four latches
LatchTargets ==
    { idRdTarget(pipeline_id[i].node) : i \in 1..Len(pipeline_id) }
        \cup { pipeline_ex[i].rdTarget : i \in 1..Len(pipeline_ex) }
        \cup { c.rdTarget : c \in PastEX }

C8_Original ==
    step = "WB" =>
        \A r \in LatchTargets : Get(registerAvailability, r, 0) >= currentCycle

\* C8 (amended): after every cycle, for every register r other than ZERO and
\* PC that is the rdTarget of an instance held in the EX->MEM or MEM->WB
\* latch (an instance that has completed EX), availability[r] >= currentCycle.
C8_LockedPastEX ==
    step = "WB" =>
        \A c \in PastEX :
            c.rdTarget \notin {ZERO, PC} =>
                Get(registerAvailability, c.rdTarget, 0) >= currentCycle

C8_Witness ==
    /\ step = "WB"
    /\ pipeline_wb # <<>>
    /\ pipeline_wb[1].rdTarget = T0
    /\ Get(registerAvailability, T0, 0) = currentCycle
    /\ pipeline_mem # <<>>
    /\ pipeline_mem[1].rdTarget = T1

\* ---------------------------------------------------------------------
\* C9 (as claimed): after every cycle, for every register r other than
\* ZERO, the register file value of r is the rdValue of the most recent
\* instance whose WB targeted r, and 0 if no WB has targeted r yet.
\* ---------------------------------------------------------------------
C9_Original ==
    step = "WB" =>
        \A r \in RegisterNames \ {ZERO} : register(r) = Get(lastWB, r, 0)

\* C9 (amended): the same for every register other than ZERO and PC (PC is
\* also written by every fetch).
C9_RegisterIsLastWB ==
    step = "WB" =>
        \A r \in RegisterNames \ {ZERO, PC} : register(r) = Get(lastWB, r, 0)

C9_Witness ==
    /\ step = "WB"
    /\ T1 \in DOMAIN lastWB
    /\ lastWB[T1] = 2
    /\ register(T0) = 1

\* ---------------------------------------------------------------------
\* C10: in both modes every EX read of ZERO yields 0, the register file
\* never holds a value other than 0 for ZERO, also after and while
\* instructions with rd = ZERO are in flight, and no reader of ZERO alone
\* is stalled by them.
\* ---------------------------------------------------------------------
C10_ZeroIsZero ==
    /\ register(ZERO) = 0
    /\ getExRegister(ZERO) = <<0, 0>>
    /\ \A i \in 1..Len(instances) :
          LET c == instances[i]
          IN  /\ (c.exCycle # NoneVal /\ c.node.rs = ZERO) => c.rsValue = 0
              /\ (c.exCycle # NoneVal /\ ~isImmediate(c.node.inst)
                      /\ c.node.rt = ZERO) => c.rtValue = 0
              /\ ReadsRegs(c.node) \subseteq {ZERO} => c.stalls = <<>>

C10_Witness ==
    /\ ZERO \in DOMAIN lastWB
    /\ lastWB[ZERO] > 0
    /\ \E i \in 2..Len(instances) :
          /\ instances[i - 1].node.rd = ZERO
          /\ ReadsRegs(instances[i].node) = {ZERO}
          /\ instances[i].exCycle = instances[i - 1].exCycle + 1
    /\ \E i \in 1..Len(instances) :
          /\ ReadsRegs(instances[i].node) = {ZERO}
          /\ instances[i].exCycle # NoneVal
          /\ \E j \in 1..Len(instances) :
                /\ instances[j].node.rd = ZERO
                /\ instances[j].wbCycle # NoneVal
                /\ instances[j].wbCycle < instances[i].exCycle

\* ---------------------------------------------------------------------
\* C11
\* ---------------------------------------------------------------------
\* the rows of real instances whose text is final (baked)
FinalRows == { k \in DOMAIN entries : k >= 0 /\ entries[k].strcache # <<>> }

CountOf(slots, name) == Cardinality({ i \in 1..Len(slots) : slots[i] = name })

\* first column after column from that holds name, 0 when there is none
NextAt(slots, name, from) ==
    LET at == { i \in 1..Len(slots) : i > from /\ slots[i] = name }
    IN  IF at = {} THEN 0 ELSE CHOOSE i \in at : \A j \in at : i <= j

\* IF, ID, EX, MEM, WB appear at strictly increasing columns
InPipelineOrder(slots) ==
    LET a == NextAt(slots, "IF", 0)
        b == IF a = 0 THEN 0 ELSE NextAt(slots, "ID", a)
        c == IF b = 0 THEN 0 ELSE NextAt(slots, "EX", b)
        d == IF c = 0 THEN 0 ELSE NextAt(slots, "MEM", c)
        e == IF d = 0 THEN 0 ELSE NextAt(slots, "WB", d)
    IN  e # 0

\* C11 as stated: a final row of a real instance holds exactly one 'IF' cell,
\* and either a '*' cell or IF, ID, EX, MEM, WB at increasing columns
C11_Original ==
    \A k \in FinalRows :
        /\ CountOf(entries[k].slots, "IF") = 1
        /\ \/ CountOf(entries[k].slots, "*") > 0
           \/ InPipelineOrder(entries[k].slots)

\* C11: a final row of a real instance holds exactly as many 'IF' cells as
\* one for the fetch plus one for each cycle the ID stage held the instance
\* (idHolds, counted by the CPU), they are its first cells, so no 'IF' cell
\* follows another label, and it holds either a '*' cell or IF, ID, EX, MEM,
\* WB at strictly increasing columns
C11_FinalRowShape ==
    \A k \in FinalRows :
        LET slots == entries[k].slots
            n == CountOf(slots, "IF")
        IN  /\ n = 1 + instances[k + 1].idHolds
            /\ \A i \in 1..n : slots[i] = "IF"
            /\ \/ CountOf(slots, "*") > 0
               \/ InPipelineOrder(slots)

\* a retired instance that the ID stage held for two cycles, next to a
\* final row of an instance it never held
C11_Witness ==
    \E k, j \in FinalRows :
        /\ instances[j + 1].idHolds = 0
        /\ CountOf(entries[j].slots, "IF") = 1
        /\ instances[k + 1].idHolds = 2
        /\ CountOf(entries[k].slots, "IF") = 3
        /\ CountOf(entries[k].slots, "*") = 0
        /\ InPipelineOrder(entries[k].slots)

\* ---------------------------------------------------------------------
\* C12
\* ---------------------------------------------------------------------
\* C12: the number of rows in history is the number of InstructionFetch
\* events the Logger processed plus the sum of the stalls fields of the
\* PipelineStall events it processed
C12_RowCount == Len(history) = logFetches + logStalls

\* a stall that asked for two NOP rows was processed after two fetches
C12_Witness ==
    /\ logStalls >= 2
    /\ logFetches >= 2
    /\ \E i \in 1..Len(history) : history[i] < 0

\* ---------------------------------------------------------------------
\* C13
\* ---------------------------------------------------------------------
\* the InstructionFetch events among the events the stage just yielded
NewFetches ==
    { i \in 1..Len(NewEvents) : NewEvents[i].type = "InstructionFetch" }

\* C13: the k-th InstructionFetch event (k from 0) carries exId = k, also
\* for an instruction fetched again after a flush, and nextExId stays equal
\* to the number of fetches so far (instances holds one record per fetch)
C13_DenseExIds ==
    [][ /\ nextExId' = Len(instances')
        /\ Cardinality(NewFetches) = Len(instances') - Len(instances)
        /\ \A i \in NewFetches : NewEvents[i].exId = Len(instances) ]_vars

\* an instruction is fetched a second time, after a flush, with a new exId
C13_Witness ==
    /\ nextExId = Len(instances)
    /\ \E i, j \in 1..Len(instances) :
          /\ i < j
          /\ instances[i].idx = instances[j].idx
          /\ instances[i].squashCycle # NoneVal
          /\ pipeline_id # <<>>
          /\ pipeline_id[1].exId = j - 1

\* ---------------------------------------------------------------------
\* C15
\* ---------------------------------------------------------------------
Labels == { instructions[i].label : i \in 1..Len(instructions) }

\* the EX stage is about to execute a branch: no hazard holds it and
\* EX->MEM is free
BranchExecutes ==
    /\ step = "EX"
    /\ error = "none"
    /\ pipeline_ex # <<>>
    /\ isBranch(pipeline_ex[1].node.inst)
    /\ getExInputs(pipeline_ex[1].node)[1] <= exNow
    /\ pipeline_mem = <<>>

\* the comparison of the branch in ID->EX succeeds
BranchTaken ==
    LET node == pipeline_ex[1].node
        inputs == getExInputs(node)
    IN  IF node.inst = "BEQ" THEN inputs[2] = inputs[3] ELSE inputs[2] # inputs[3]

\* C15: a taken branch whose target label is on no instruction aborts the
\* run in the EX stage with an error that names the label, the branch still
\* in ID->EX and no event yielded; a branch that is not taken raises no
\* error even when its label is on no instruction: it yields StageAdvance
\* 'EX' and moves to EX->MEM when the stage is resumed
C15_UnresolvedLabel ==
    [][ /\ BranchExecutes =>
              IF BranchTaken /\ pipeline_ex[1].node.target \notin Labels
              THEN /\ error' = "Unable to resolve label target: "
                                  \o pipeline_ex[1].node.target
                   /\ step' = "EX"
                   /\ pipeline_ex' = pipeline_ex
                   /\ pipeline_mem' = <<>>
                   /\ events' = events
              ELSE /\ error' = "none"
                   /\ step' = "EX:advance"
                   /\ NewEvents = <<StageAdvanceEvent(pipeline_ex[1].exId,
                                                      currentCycle, "EX")>>
        /\ (step = "EX:advance" /\ step' # step) =>
              /\ error' = "none"
              /\ pipeline_ex' = <<>>
              /\ pipeline_mem' # <<>>
              /\ pipeline_mem'[1].exId = pipeline_ex[1].exId
              /\ pipeline_mem'[1].node = pipeline_ex[1].node ]_vars

\* a branch to a label on no instruction went through EX not taken, no error
C15_Witness ==
    /\ error = "none"
    /\ pipeline_mem # <<>>
    /\ isBranch(pipeline_mem[1].node.inst)
    /\ pipeline_mem[1].node.target \notin Labels
    /\ ~instances[pipeline_mem[1].exId + 1].taken
    /\ instances[pipeline_mem[1].exId + 1].rsValue
          # instances[pipeline_mem[1].exId + 1].rtValue

\* ---------------------------------------------------------------------
\* C16
\* ---------------------------------------------------------------------
\* C16: of the PipelineStall stage 'ID' events of an instance (their stalls
\* fields are instances[i].stalls, in order) only the first has stalls > 0,
\* and once the instance has left EX that value is the number of those
\* events; while it is still held, or after a squash, no more events than
\* that value were emitted
C16_OneNopRequest ==
    \A i \in 1..Len(instances) :
        LET s == instances[i].stalls
        IN  s # <<>> =>
              /\ s[1] > 0
              /\ \A j \in 2..Len(s) : s[j] = 0
              /\ Len(s) <= s[1]
              /\ instances[i].exCycle # NoneVal => Len(s) = s[1]

\* an instance was held two cycles by a hazard and then executed
C16_Witness ==
    \E i \in 1..Len(instances) :
        /\ instances[i].stalls = <<2, 0>>
        /\ instances[i].exCycle # NoneVal
        /\ instances[i].squashCycle = NoneVal

\* ---------------------------------------------------------------------
\* C17
\* ---------------------------------------------------------------------
\* C17: Logger.update raises on no event of any event stream of the CPU; at
\* EndOfCycle every row in cycleMissed gets its '*' at offset
\* cycle - startCycle
C17_UpdateNeverRaises == logError = "none"

\* ---------------------------------------------------------------------
\* C18
\* ---------------------------------------------------------------------
\* C18: every synthetic NOP row of the diagram has its own negative exId:
\* no two rows of history carry the same negative exId
C18_NopRowsOwnExId ==
    \A i, j \in 1..Len(history) :
        (i < j /\ history[i] < 0) => history[i] # history[j]

\* ---------------------------------------------------------------------
\* C19
\* ---------------------------------------------------------------------
\* the PipelineStall events with stalls > 0 the live Logger just processed
NewNopRequests ==
    { i \in 1..Len(NewEvents) :
        /\ logError = "none"
        /\ NewEvents[i].type = "PipelineStall"
        /\ NewEvents[i].stalls > 0 }

\* history without the n rows in front of position at
WithoutRowsBefore(h, at, n) == SubSeq(h, 1, at - n - 1) \o SubSeq(h, at, Len(h))

\* C19: once a PipelineStall with stalls = k > 0 for row R is processed, the
\* k rows right in front of R in history are synthetic NOP rows with the
\* startCycle of R, marked 'IF' at startCycle and 'ID' at startCycle + 1, and
\* the rows that were there before keep their order
C19_NopRowsBeforeStalled ==
    [][ \A e \in NewNopRequests :
          LET k == NewEvents[e].stalls
              R == NewEvents[e].exId
              at == CHOOSE i \in 1..Len(history') : history'[i] = R
          IN  /\ at > k
              /\ \A i \in (at - k)..(at - 1) :
                    /\ history'[i] < 0
                    /\ history'[i] \notin DOMAIN entries
                    /\ entries'[history'[i]].node = Nop
                    /\ entries'[history'[i]].startCycle = entries'[R].startCycle
                    /\ entries'[history'[i]].slots = <<"IF", "ID">>
              /\ WithoutRowsBefore(history', at, k) = history ]_vars

\* two NOP rows stand right in front of the row of a stalled instance
C19_Witness ==
    \E at \in 3..Len(history) :
        /\ history[at] >= 0
        /\ history[at - 1] < 0
        /\ history[at - 2] < 0
        /\ entries[history[at]].startCycle = entries[history[at - 1]].startCycle
        /\ CountOf(entries[history[at]].slots, "ID") >= 2

\* ---------------------------------------------------------------------
\* C20
\* ---------------------------------------------------------------------
\* the ID stage finds ID->EX occupied
IDHeld == step = "ID" /\ error = "none" /\ pipeline_id # <<>> /\ pipeline_ex # <<>>

\* the EX stage finds an operand of its instruction not yet available
EXHeld ==
    /\ step = "EX"
    /\ error = "none"
    /\ pipeline_ex # <<>>
    /\ getExInputs(pipeline_ex[1].node)[1] > exNow

\* C20: a stage that stalls (ID with ID->EX occupied, EX on an unresolved
\* hazard) yields exactly one PipelineStall event, for its own instance, and
\* leaves the occupant of every latch, the register file with PC, the
\* availability table and nextExId as they were, up to the yield and when
\* it is resumed; only the stalled flag of the ID->EX context changes, when
\* the EX stage is resumed
C20_StallFrame ==
    [][ /\ (IDHeld \/ EXHeld) =>
              /\ step' = IF IDHeld THEN "ID:stall" ELSE "EX:hazard"
              /\ Len(NewEvents) = 1
              /\ NewEvents[1].type = "PipelineStall"
              /\ NewEvents[1].exId =
                    IF IDHeld THEN pipeline_id[1].exId ELSE pipeline_ex[1].exId
              /\ UNCHANGED <<pipeline_id, pipeline_ex, pipeline_mem, pipeline_wb,
                             registers, registerAvailability, nextExId>>
        /\ (step \in {"ID:stall", "EX:hazard"} /\ step' # step) =>
              /\ step' = IF step = "ID:stall" THEN "IF" ELSE "ID"
              /\ NewEvents = <<>>
              /\ pipeline_ex' = IF step = "EX:hazard"
                                THEN <<[pipeline_ex[1] EXCEPT !.stalled = TRUE]>>
                                ELSE pipeline_ex
              /\ UNCHANGED <<pipeline_id, pipeline_mem, pipeline_wb,
                             registers, registerAvailability, nextExId>> ]_vars

\* in one cycle the EX stage stalled on a hazard and the ID stage was held
\* behind it
C20_Witness ==
    /\ step = "IF"
    /\ Len(events) >= 2
    /\ events[Len(events) - 1].type = "PipelineStall"
    /\ events[Len(events) - 1].stage = "ID"
    /\ events[Len(events)].type = "PipelineStall"
    /\ events[Len(events)].stage = "IF"
    /\ pipeline_ex # <<>>
    /\ pipeline_ex[1].stalled
    /\ pipeline_id # <<>>

\* ---------------------------------------------------------------------
\* C21
\* ---------------------------------------------------------------------
\* the place in cycle() of the stage that yields an event of this shape
EventRank(e) ==
    IF e.type = "PipelineExit" THEN 1
    ELSE IF e.type = "StageAdvance" /\ e.stage \in {"*", "WB"} THEN 1
    ELSE IF e.type = "StageAdvance" /\ e.stage = "MEM" THEN 2
    ELSE IF e.type = "PipelineStall" /\ e.stage = "EX" THEN 2
    ELSE IF e.type = "StageAdvance" /\ e.stage = "EX" THEN 3
    ELSE IF e.type = "PipelineStall" /\ e.stage = "ID" THEN 3
    ELSE IF e.type = "StageAdvance" /\ e.stage = "ID" THEN 4
    ELSE IF e.type = "PipelineStall" /\ e.stage = "IF" THEN 4
    ELSE IF e.type = "InstructionFetch" THEN 5
    ELSE 6

\* the place in cycle() of the stage the generator is in
StepRank ==
    IF step \in {"WB", "WB:flushMEM", "WB:flushEX", "WB:flushID",
                 "WB:advance", "WB:exit"} THEN 1
    ELSE IF step \in {"MEM", "MEM:stall", "MEM:advance"} THEN 2
    ELSE IF step \in {"EX", "EX:hazard", "EX:hold", "EX:advance"} THEN 3
    ELSE IF step \in {"ID", "ID:stall", "ID:advance"} THEN 4
    ELSE IF step \in {"IF", "IF:fetch"} THEN 5
    ELSE 6

\* C21: in every cycle all events carry the number of the cycle, the events
\* of the stages come in the order WB, MEM, EX, ID, IF, one EndOfCycle event
\* is yielded and it is the last of the cycle, and currentCycle grows by
\* exactly one when the generator is resumed after it, and at no other
\* time
C21_CycleOrder ==
    [][ /\ \A i \in 1..Len(NewEvents) :
              /\ NewEvents[i].cycle = currentCycle
              /\ EventRank(NewEvents[i]) = StepRank
        /\ \A i, j \in 1..Len(events') :
              i < j => /\ EventRank(events'[i]) <= EventRank(events'[j])
                       /\ events'[i].cycle = events'[j].cycle
                       /\ events'[i].type # "EndOfCycle"
        /\ (step = "EOC" /\ step' # step) =>
              /\ step' = "EndOfCycle"
              /\ NewEvents = <<EndOfCycleEvent(currentCycle)>>
        /\ IF step = "EndOfCycle" /\ step' # step
           THEN /\ step' = "WB"
                /\ events[Len(events)].type = "EndOfCycle"
                /\ NewEvents = <<>>
                /\ currentCycle' = currentCycle + 1
           ELSE currentCycle' = currentCycle ]_vars

\* a cycle with the pipeline full has just ended: every stage yielded
C21_Witness ==
    /\ step = "WB"
    /\ currentCycle > 0
    /\ \A r \in 1..6 : \E i \in 1..Len(events) : EventRank(events[i]) = r
    /\ events[Len(events)].type = "EndOfCycle"
    /\ events[Len(events)].cycle = currentCycle - 1

\* ---------------------------------------------------------------------
\* C22
\* ---------------------------------------------------------------------
\* the WB stage ends the flush for a branch: it goes on to its own
\* StageAdvance
BranchFlushes ==
    /\ step \in {"WB", "WB:flushMEM", "WB:flushEX", "WB:flushID"}
    /\ step' = "WB:advance"
    /\ pipeline_wb # <<>>
    /\ pipeline_wb[1].rdTarget = PC
    /\ pipeline_wb[1].rdValue # pc

\* the EX stage is about to complete an instruction that locks reg
Locks(reg) ==
    /\ step = "EX"
    /\ error = "none"
    /\ pipeline_ex # <<>>
    /\ pipeline_mem = <<>>
    /\ getExInputs(pipeline_ex[1].node)[1] <= exNow
    /\ isArithmetic(pipeline_ex[1].node.inst) \/ isImmediate(pipeline_ex[1].node.inst)
    /\ pipeline_ex[1].node.rd = reg

\* C22: a value in the availability table never decreases, except that a
\* branch flush clears the whole table; a lock acquisition writes
\* max(existing value, currentCycle + 2) and nothing else writes the table
C22_AvailabilityMonotone ==
    [][ IF BranchFlushes
        THEN registerAvailability' = EmptyDict
        ELSE /\ DOMAIN registerAvailability \subseteq DOMAIN registerAvailability'
             /\ \A reg \in DOMAIN registerAvailability' :
                   IF Locks(reg)
                   THEN registerAvailability'[reg] =
                          Max(Get(registerAvailability, reg, 0), currentCycle + 2)
                   ELSE /\ reg \in DOMAIN registerAvailability
                        /\ registerAvailability'[reg] = registerAvailability[reg] ]_vars

\* a register that was already locked is locked again by a later writer
C22_Witness ==
    \E reg \in DOMAIN registerAvailability :
        /\ registerAvailability[reg] = currentCycle + 2
        /\ step = "ID"
        /\ pipeline_mem # <<>>
        /\ pipeline_mem[1].rdTarget = reg
        /\ pipeline_wb # <<>>
        /\ pipeline_wb[1].rdTarget = reg

\* ---------------------------------------------------------------------
\* C23
\* ---------------------------------------------------------------------
\* 0-based index of the first instruction that carries the label
FirstLabelled(label) ==
    CHOOSE i \in 0..(Len(instructions) - 1) :
        /\ instructions[i + 1].label = label
        /\ \A j \in 0..(i - 1) : instructions[j + 1].label # label

\* the taken branches that have been written back
TakenWritten ==
    { b \in 1..Len(instances) :
        instances[b].taken /\ instances[b].wbCycle # NoneVal }

\* the instances fetched after the WB of branch b (the IF stage of the cycle
\* of that WB included)
FetchedSince(b) ==
    { j \in 1..Len(instances) : instances[j].ifCycle >= instances[b].wbCycle }

\* the first fetch after the WB of each taken branch is at its target
NextFetchAtTarget ==
    \A b \in TakenWritten :
        FetchedSince(b) # {} =>
            LET first == CHOOSE j \in FetchedSince(b) :
                             \A k \in FetchedSince(b) : j <= k
            IN  instances[first].idx = FirstLabelled(instances[b].node.target)

\* C23: when a taken branch is written back PC becomes the index of the
\* first instruction whose label is the target of the branch, and the next
\* InstructionFetch after that WB is for the instruction at that index
C23_BranchTarget ==
    [][ /\ ( /\ step \in {"WB", "WB:flushMEM", "WB:flushEX", "WB:flushID"}
             /\ step' = "WB:advance"
             /\ instances[pipeline_wb[1].exId + 1].taken )
          => registers'[PC] = FirstLabelled(pipeline_wb[1].node.target)
        /\ NextFetchAtTarget' ]_vars

\* a taken branch to a label that two instructions carry was written back
\* and the instruction at its target was fetched
C23_Witness ==
    \E b \in TakenWritten :
        /\ Cardinality({ i \in 1..Len(instructions) :
                           instructions[i].label = instances[b].node.target }) = 2
        /\ FetchedSince(b) # {}
        /\ instances[b].squashCycle = NoneVal

\* ---------------------------------------------------------------------
\* C24
\* ---------------------------------------------------------------------
\* C24: a NOP node of the program is decoded with rdTarget ZERO and passes
\* the EX stage without raising
C24_NopRetires ==
    ( pipeline_ex # <<>> /\ pipeline_ex[1].node.inst = "NOP" )
          => /\ pipeline_ex[1].rdTarget = ZERO
             /\ error = "none"

\* ---------------------------------------------------------------------
\* C25
\* ---------------------------------------------------------------------
\* the exIds whose PipelineExit the Logger processed in an earlier step
\* (at the yield of StageAdvance 'WB' the PipelineExit is still to come)
ExitProcessed ==
    { k \in DOMAIN entries :
        /\ k >= 0
        /\ instances[k + 1].wbCycle # NoneVal
        /\ ~(step = "WB:advance" /\ frame[1].exId = k)
        /\ logError = "none" }

\* C25: after the Logger processed the PipelineExit of an exId the row is
\* in neither current nor cycleMissed, and its rendered string never
\* changes again
C25_ExitedRowFrozen ==
    [][ /\ \A i \in 1..Len(NewEvents) :
              ( NewEvents[i].type = "PipelineExit" /\ logError' = "none" )
                 => NewEvents[i].exId \notin (current' \cup cycleMissed')
        /\ \A k \in ExitProcessed :
              /\ k \in DOMAIN entries'
              /\ LogEntryStr(entries'[k]) = LogEntryStr(entries[k])
              /\ k \notin (current' \cup cycleMissed') ]_vars

\* a row that exited two cycles ago while later EndOfCycle events were
\* processed by the Logger
C25_Witness ==
    \E k \in ExitProcessed :
        /\ instances[k + 1].wbCycle + 2 <= currentCycle
        /\ entries[k].strcache # <<>>
        /\ cycleMissed # {}

\* ---------------------------------------------------------------------
\* C26
\* ---------------------------------------------------------------------
\* the EX stage is about to run on an occupant whose operands are available
EXPassesHazard ==
    /\ step = "EX"
    /\ error = "none"
    /\ pipeline_ex # <<>>
    /\ getExInputs(pipeline_ex[1].node)[1] <= exNow

\* the structural-hold stalls of MEM (stage 'EX') among the events of the
\* cycle
StructuralStalls ==
    { i \in 1..Len(events) :
        events[i].type = "PipelineStall" /\ events[i].stage = "EX" }

\* C26: whenever MEM runs the MEM->WB latch is empty and whenever EX passes
\* its hazard check the EX->MEM latch is empty, so that EX never takes its
\* second stall site, and no structural-hold stall of MEM is ever emitted
C26_NoStructuralHold ==
    /\ step = "MEM" => pipeline_wb = <<>>
    /\ EXPassesHazard => pipeline_mem = <<>>
    /\ step \notin {"MEM:stall", "EX:hold"}
    /\ StructuralStalls = {}

\* EX passes its hazard check in a cycle in which WB and MEM both moved an
\* instance on
C26_Witness ==
    /\ EXPassesHazard
    /\ Len(events) >= 3
    /\ events[Len(events)].type = "StageAdvance"
    /\ events[Len(events)].stage = "MEM"
    /\ events[Len(events) - 1].type = "PipelineExit"

\* ---------------------------------------------------------------------
\* C27
\* ---------------------------------------------------------------------
\* the run without forwarding has halted after the run with forwarding did
BothHalted ==
    /\ firstRun # <<>>
    /\ step = "WB"
    /\ error = "none"
    /\ currentCycle > 0
    /\ ~running

\* C27: for every program that halts in both modes every register other
\* than PC ends with the same value with forwarding as without
C27_SameFinalRegisters ==
    BothHalted =>
        \A reg \in RegisterNames \ {PC} :
            Get(registers, reg, 0) = Get(firstRun[1], reg, 0)

\* ---------------------------------------------------------------------
\* C28
\* ---------------------------------------------------------------------
\* the number of cycles after its fetch within which an instance has left
\* the pipeline
ExitLatency == 8

\* the instance has been written back (PipelineExit)
Exited(i) == instances[i].wbCycle # NoneVal

\* the instance has been squashed by a flush (StageAdvance '*')
Squashed(i) == instances[i].squashCycle # NoneVal

\* the instance sits in one of the three younger latches or in MEM->WB
InLatch(i) ==
    (i - 1) \in LatchIds(pipeline_id) \cup LatchIds(pipeline_ex)
                   \cup LatchIds(pipeline_mem) \cup LatchIds(pipeline_wb)

\* C28: unless a fatal error stopped the run, every fetched instance is
\* written back or squashed, never both, within ExitLatency cycles of its
\* fetch, and it is in a latch exactly until then
C28_ExitOrSquash ==
    \A i \in 1..Len(instances) :
        /\ ~(Exited(i) /\ Squashed(i))
        /\ InLatch(i) <=> ~(Exited(i) \/ Squashed(i))
        /\ ( error = "none" /\ currentCycle > instances[i].ifCycle + ExitLatency )
              => (Exited(i) \/ Squashed(i))

\* one instance was written back after being held by a stall, another was
\* squashed
C28_Witness ==
    \E i, j \in 1..Len(instances) :
        /\ Exited(i)
        /\ instances[i].wbCycle > instances[i].ifCycle + 4
        /\ Squashed(j)

\* ---------------------------------------------------------------------
\* C29
\* ---------------------------------------------------------------------
\* the exIds held in the four latches
AllLatchIds ==
    LatchIds(pipeline_id) \cup LatchIds(pipeline_ex)
        \cup LatchIds(pipeline_mem) \cup LatchIds(pipeline_wb)

\* the events of the current cycle that mark a stage cell of exId
StageMarks(exId) ==
    { i \in 1..Len(events) :
        /\ events[i].exId = exId
        /\ \/ events[i].type = "InstructionFetch"
           \/ events[i].type = "PipelineStall"
           \/ events[i].type = "StageAdvance" /\ events[i].stage # "*" }

\* the instance whose '*' the flush has yielded and whose latch it empties
\* when the WB stage is resumed
BeingFlushed ==
    IF step = "WB:flushMEM" THEN LatchIds(pipeline_mem)
    ELSE IF step = "WB:flushEX" THEN LatchIds(pipeline_ex)
    ELSE IF step = "WB:flushID" THEN LatchIds(pipeline_id)
    ELSE {}

\* C29: an instance in a latch gets exactly one stage-marking event in
\* every cycle, so its row is in current, is not baked, has no '*' cell
\* (but for the '*' of the flush that is squashing it) and one cell per
\* cycle since its fetch, and is not among the rows missed when EndOfCycle
\* arrives; the Logger never gets an event for an exId that is missing
\* from current
C29_LatchRowsMarked ==
    /\ logError # "KeyError"
    /\ \A k \in AllLatchIds :
          /\ step \in {"EOC", "EndOfCycle", "WB"} => Cardinality(StageMarks(k)) = 1
          /\ logError = "none" =>
                /\ k \in current
                /\ entries[k].strcache = <<>>
                /\ \A c \in 1..Len(entries[k].slots) :
                      /\ entries[k].slots[c] # NoneCell
                      /\ k \notin BeingFlushed => entries[k].slots[c] # "*"
                /\ step = "EOC" =>
                      /\ k \notin cycleMissed
                      /\ Len(entries[k].slots)
                            = currentCycle - entries[k].startCycle + 1

\* an instance held by a stall is in a latch at the end of a cycle in which
\* EndOfCycle has other rows to mark
C29_Witness ==
    /\ step = "EOC"
    /\ logError = "none"
    /\ \E k \in AllLatchIds : Len(instances[k + 1].stalls) > 0
    /\ cycleMissed # {}

\* ---------------------------------------------------------------------
\* C30
\* ---------------------------------------------------------------------
\* C30: once running is false it stays false: every further step of
\* cycle() leaves every register value (reading running or a register makes
\* its key exist with the value 0 it already read as), the availability
\* table, the latches and nextExId as they are, and emits nothing but
\* EndOfCycle, but for the PipelineExit that follows the last StageAdvance
\* 'WB' in the same cycle(); only currentCycle moves
C30_HaltedStaysHalted ==
    [][ ~running =>
          /\ ~running'
          /\ \A reg \in RegisterNames :
                Get(registers', reg, 0) = Get(registers, reg, 0)
          /\ UNCHANGED <<registerAvailability, nextExId, pipeline_id,
                         pipeline_ex, pipeline_mem, pipeline_wb, instructions,
                         forwarding, error>>
          /\ \A i \in 1..Len(NewEvents) :
                IF step = "WB:advance"
                THEN NewEvents[i].type = "PipelineExit"
                ELSE NewEvents[i].type = "EndOfCycle"
          /\ currentCycle' \in {currentCycle, currentCycle + 1} ]_vars

\* a whole cycle() of a halted CPU that had run a program went by
C30_Witness ==
    /\ ~running
    /\ step = "WB"
    /\ events = <<EndOfCycleEvent(currentCycle - 1)>>
    /\ Len(instances) >= 2
    /\ error = "none"

====
